---- MODULE Spec2Model ----
(***************************************************************************)
(* A model of app.py: the module-level model loading, the /predict and /   *)
(* handlers of the Flask application, and the submit handler of the page's *)
(* embedded client script.                                                 *)
(***************************************************************************)
EXTENDS Integers, Sequences, FiniteSets, TLC

(***************************************************************************)
(* Bounds of the model.                                                    *)
(***************************************************************************)
\* The longest `features` list a request carries (the handler wants 4).
MaxLen == 5
\* The classifier may emit any class index in -(MaxClassIndex+1)..MaxClassIndex.
MaxClassIndex == 3
\* The clock (time.time(), in seconds) runs from 0 to MaxTime.
MaxTime == 1
\* The number of form submissions of one page.
MaxSubmits == 3

(***************************************************************************)
(* Configuration (app.py, lines 13-14).                                    *)
(***************************************************************************)
\* Python lists are 0-based, TLA+ sequences 1-based: CLASS_LABELS[i] of the
\* source is CLASS_LABELS[i + 1] here.
CLASS_LABELS == <<"Setosa", "Versicolor", "Virginica">>

\* The arity the handler checks: len(features) != 4.
NumFeatures == 4

(***************************************************************************)
(* JSON values.  An element of a list is a number, a string or null; a     *)
(* string is the sequence of its characters.                               *)
(***************************************************************************)
Num(n) == [t |-> "num", n |-> n, chars |-> <<>>]
Str(cs) == [t |-> "str", n |-> 0, chars |-> cs]
Null == [t |-> "null", n |-> 0, chars |-> <<>>]

\* The numbers the requests are built from.
Nums == {1, 2}

\* The value of the `features` key: absent, null, a number, a string, a list.
Feat(t, n, chars, items) == [t |-> t, n |-> n, chars |-> chars, items |-> items]
FAbsent == Feat("absent", 0, <<>>, <<>>)
FNull == Feat("null", 0, <<>>, <<>>)
FNum(n) == Feat("num", n, <<>>, <<>>)
FStr(cs) == Feat("str", 0, cs, <<>>)
FList(items) == Feat("list", 0, <<>>, items)

\* A request body: unparseable, or the JSON values null, an array, an object
\* with or without a `features` key (and with or without other keys).
Body(kind, other, f) == [kind |-> kind, other |-> other, features |-> f]

Ones(k) == [i \in 1..k |-> Num(1)]

\* Lists of numbers of every length but 4.
WrongLengthLists ==
    {FList(Ones(k)) : k \in (0..MaxLen) \ {NumFeatures}}
    \cup {FList(<<Str(<<"a">>)>>), FList(<<Null, Num(1)>>)}
\* Every list of 4 numbers.
NumericVectors == {FList([i \in 1..NumFeatures |-> Num(v[i])]) : v \in [1..NumFeatures -> Nums]}
\* Elements that are not numbers: a numeric string, another string, null.
NonNumbers == {Str(<<"1">>), Str(<<"a">>), Null}
\* Lists of 4 elements, the first or the last of which is not a number.
MixedVectors ==
    {FList([Ones(NumFeatures) EXCEPT ![p] = e]) : p \in {1, NumFeatures}, e \in NonNumbers}
\* Values of `features` that are no list.
Scalars ==
    {FAbsent, FNull, FNum(0), FNum(5), FStr(<<>>), FStr(<<"a", "b">>),
     FStr(<<"a", "b", "c", "d">>), FStr(<<"1", "1", "1", "1">>)}

FeatureValues == WrongLengthLists \cup NumericVectors \cup MixedVectors \cup Scalars

Bodies ==
    {Body("unparseable", FALSE, FAbsent), Body("null", FALSE, FAbsent),
     Body("array", FALSE, FAbsent), Body("object", TRUE, FAbsent)}
    \cup {Body("object", FALSE, f) : f \in FeatureValues}

(***************************************************************************)
(* The classifier.  The handle is None or a loaded object; a loaded        *)
(* classifier is a pure function of the matrix it is given, here one of a  *)
(* family indexed by `seed`.  What it returns is opaque to app.py: a class *)
(* index (possibly outside the label table), a value that is no integer,   *)
(* or an exception.                                                        *)
(***************************************************************************)
None == [set |-> FALSE, seed |-> 0]

NumOutcomes == 2 * MaxClassIndex + 4

Models == [set : {TRUE}, seed : 0..(NumOutcomes - 1)]

Raised == [raised |-> TRUE, value |-> 0]
Value(v) == [raised |-> FALSE, value |-> v]

\* What a call of predict(X)[0] can give.
Outcome(k) ==
    CASE k = 0 -> Raised
      [] k = 1 -> Value([kind |-> "float", idx |-> 1])
      [] OTHER -> Value([kind |-> "int", idx |-> k - 2 - (MaxClassIndex + 1)])

\* float32 values: a number or NaN.
F32(v) == [nan |-> FALSE, v |-> v]
NaN == [nan |-> TRUE, v |-> 0]

RECURSIVE WeightedSum(_)
WeightedSum(vals) ==
    IF vals = <<>> THEN 0
    ELSE LET k == Len(vals)
             x == vals[k]
         IN  WeightedSum(SubSeq(vals, 1, k - 1)) + k * (IF x.nan THEN 3 ELSE x.v)

\* line 54: ai_model.predict(input_array)[0]
model_predict(model, X) ==
    Outcome((model.seed + X.ndim + WeightedSum(X.vals)) % NumOutcomes)

(***************************************************************************)
(* State.                                                                  *)
(***************************************************************************)
VARIABLES
    started,      \* the module's top-level code (lines 19-30) has run
    ai_model,     \* the process-wide model handle
    now,          \* the clock time.time() reads
    request,      \* the request handled last
    response,     \* the response it got
    invoked,      \* whether handling it called ai_model.predict
    probe,        \* history: one earlier /predict request and its response
    handlers,     \* the page: one entry per run of the submit handler
    submitButton, \* the page: [disabled, textContent] of #submitButton
    loadingSpinner,   \* the page: "hidden" or "shown"
    predictionOutput, \* the page: what #predictionOutput shows, and for which run
    errorOutput       \* the page: [hidden, text] of #errorOutput

serverVars == <<started, ai_model, now, request, response, invoked, probe>>
pageVars == <<handlers, submitButton, loadingSpinner, predictionOutput, errorOutput>>
vars == <<started, ai_model, now, request, response, invoked, probe, handlers,
          submitButton, loadingSpinner, predictionOutput, errorOutput>>

(***************************************************************************)
(* Responses.                                                              *)
(***************************************************************************)
Response(status, content, success, index, label, error, timestamp) ==
    [status |-> status, content |-> content, success |-> success,
     prediction_index |-> index, predicted_label |-> label, error |-> error,
     timestamp |-> timestamp]

NoResponse == Response(0, "none", "absent", 0, "", "", 0)
\* line 38
NotLoadedResponse ==
    Response(503, "json", "absent", 0, "", "Model not loaded on server.", 0)
\* line 48
InvalidInputResponse ==
    Response(400, "json", "absent", 0, "",
             "Invalid input: features must be a list of 4 numerical values.", 0)
\* lines 60-65
SuccessResponse(index, label, t) == Response(200, "json", "true", index, label, "", t)
\* lines 69-72
ServerErrorResponse ==
    Response(500, "json", "false", 0, "", "Prediction failed due to server error", 0)
\* What Flask answers when an exception leaves a view function.
FrameworkErrorResponse == Response(500, "html", "absent", 0, "", "Internal Server Error", 0)
\* line 229
PageResponse == Response(200, "html", "absent", 0, "", "", 0)

(***************************************************************************)
(* predict(), lines 35-72, statement by statement.  A statement gives      *)
(* Raised when it raises an exception and Value(v) when it evaluates to v. *)
(***************************************************************************)
\* line 37: `not ai_model` is False
ModelLoaded(model) == model.set

\* line 42: request.get_json(); raises on a body that is not JSON
get_json(body) == IF body.kind = "unparseable" THEN Raised ELSE Value(body)

\* line 45: data.get('features'); None and a list have no get(), a dict
\* without the key gives None
data_get(data) ==
    IF data.kind # "object" THEN Raised
    ELSE IF data.features.t = "absent" THEN Value(FNull)
    ELSE Value(data.features)

\* `not features`
Falsy(f) ==
    \/ f.t = "null"
    \/ f.t = "num" /\ f.n = 0
    \/ f.t = "str" /\ f.chars = <<>>
    \/ f.t = "list" /\ f.items = <<>>

\* len(features); a number has none
len(f) ==
    CASE f.t = "list" -> Value(Len(f.items))
      [] f.t = "str" -> Value(Len(f.chars))
      [] OTHER -> Raised

\* The arity check written as len(features) < 4.
InvalidFeaturesTooShort(f) ==
    IF Falsy(f) THEN Value(TRUE)
    ELSE IF len(f).raised THEN Raised
    ELSE Value(len(f).value < NumFeatures)

\* line 47: not features or len(features) != 4
InvalidFeatures(f) ==
    IF Falsy(f) THEN Value(TRUE)
    ELSE IF len(f).raised THEN Raised
    ELSE Value(len(f).value # NumFeatures)

\* float(s) of a string: its decimal value, if all its characters are digits
IsNumeric(cs) == cs # <<>> /\ \A i \in 1..Len(cs) : cs[i] \in {"1", "2"}
DigitValue(c) == IF c = "1" THEN 1 ELSE 2
RECURSIVE ParseFloat(_)
ParseFloat(cs) ==
    IF cs = <<>> THEN 0
    ELSE 10 * ParseFloat(SubSeq(cs, 1, Len(cs) - 1)) + DigitValue(cs[Len(cs)])

\* The float32 one element becomes: a number itself, a numeric string its
\* value, None NaN; any other string raises ValueError.
Coercible(e) == e.t = "str" => IsNumeric(e.chars)
Coerce(e) ==
    CASE e.t = "num" -> F32(e.n)
      [] e.t = "str" -> F32(ParseFloat(e.chars))
      [] OTHER -> NaN

\* line 51: np.array([features], dtype=np.float32).  A list of 4 gives a
\* 1 x 4 matrix; a string is one element, and gives a vector of length 1.
np_array(f) ==
    IF f.t = "str"
    THEN IF IsNumeric(f.chars)
         THEN Value([ndim |-> 1, vals |-> <<F32(ParseFloat(f.chars))>>])
         ELSE Raised
    ELSE IF \A i \in 1..Len(f.items) : Coercible(f.items[i])
         THEN Value([ndim |-> 2, vals |-> [i \in 1..Len(f.items) |-> Coerce(f.items[i])]])
         ELSE Raised

\* The lookup with the index taken as 1-based: CLASS_LABELS[prediction_index - 1].
LabelLookupOneBased(p) ==
    LET n == Len(CLASS_LABELS) IN
    IF p.kind # "int" THEN Raised
    ELSE IF 1 <= p.idx /\ p.idx <= n THEN Value(CLASS_LABELS[p.idx])
    ELSE IF -n < p.idx /\ p.idx <= 0 THEN Value(CLASS_LABELS[n + p.idx])
    ELSE Raised

\* line 57: CLASS_LABELS[prediction_index], with Python's indexing: an index
\* that is no integer raises TypeError, -len..-1 count from the end, anything
\* else outside 0..len-1 raises IndexError.
LabelLookup(p) ==
    LET n == Len(CLASS_LABELS) IN
    IF p.kind # "int" THEN Raised
    ELSE IF 0 <= p.idx /\ p.idx < n THEN Value(CLASS_LABELS[p.idx + 1])
    ELSE IF -n <= p.idx /\ p.idx < 0 THEN Value(CLASS_LABELS[n + p.idx + 1])
    ELSE Raised

\* What the body of the try block (lines 41-65) does: it returns a response
\* or raises, having called the classifier or not.
Returns(resp, called) == [raised |-> FALSE, response |-> resp, invoked |-> called]
Raises(called) == [raised |-> TRUE, response |-> NoResponse, invoked |-> called]

AfterPredict(out, t) ==
    IF out.raised THEN Raises(TRUE)
    ELSE LET label == LabelLookup(out.value) IN
         IF label.raised THEN Raises(TRUE)
         ELSE Returns(SuccessResponse(out.value.idx, label.value, t), TRUE)

AfterFeatures(model, f, t) ==
    LET invalid == InvalidFeatures(f)
        input_array == np_array(f)
    IN  IF invalid.raised THEN Raises(FALSE)
        ELSE IF invalid.value THEN Returns(InvalidInputResponse, FALSE)
        ELSE IF input_array.raised THEN Raises(FALSE)
        ELSE AfterPredict(model_predict(model, input_array.value), t)

TryBlock(model, body, t) ==
    LET data == get_json(body) IN
    IF data.raised THEN Raises(FALSE)
    ELSE LET features == data_get(data.value) IN
         IF features.raised THEN Raises(FALSE)
         ELSE AfterFeatures(model, features.value, t)

\* An except clause that is missing: the exception leaves the handler.
Uncaught(r) == IF r.raised THEN Returns(FrameworkErrorResponse, r.invoked) ELSE r

\* lines 67-72: except Exception
Caught(r) == IF r.raised THEN Returns(ServerErrorResponse, r.invoked) ELSE r

\* Lines 41-72 run before the check of line 37.
predictParsesFirst(model, body, t) ==
    LET r == Caught(TryBlock(model, body, t)) IN
    IF r.response.status # 200 THEN r
    ELSE IF ~ModelLoaded(model) THEN Returns(NotLoadedResponse, FALSE)
    ELSE r

\* predict(), lines 35-72
predict(model, body, t) ==
    IF ~ModelLoaded(model) THEN Returns(NotLoadedResponse, FALSE)
    ELSE Caught(TryBlock(model, body, t))

(***************************************************************************)
(* The server.                                                             *)
(***************************************************************************)
\* The request carries a feature vector: `features` is a list.
HasVector(body) == body.kind = "object" /\ body.features.t = "list"

NoRequest == [route |-> "none", body |-> Body("null", FALSE, FAbsent)]
NoProbe == [set |-> FALSE, body |-> Body("null", FALSE, FAbsent), response |-> NoResponse]

PageInit ==
    /\ handlers = <<>>
    /\ submitButton = [disabled |-> FALSE, textContent |-> "Get Prediction"]
    /\ loadingSpinner = "hidden"
    /\ predictionOutput = [text |-> "Awaiting input...", label |-> "", index |-> 0, of |-> 0]
    /\ errorOutput = [hidden |-> TRUE, text |-> ""]

Init ==
    /\ started = FALSE
    /\ ai_model = None
    /\ now = 0
    /\ request = NoRequest
    /\ response = NoResponse
    /\ invoked = FALSE
    /\ probe = NoProbe
    /\ PageInit

\* lines 19-30: the load succeeds (line 25) or fails (line 28)
LoadModel ==
    /\ ~started
    /\ started' = TRUE
    /\ ai_model' \in Models \cup {None}
    /\ UNCHANGED <<now, request, response, invoked, probe>>
    /\ UNCHANGED pageVars

\* A handler that keeps the last prediction in a process-wide cache and
\* answers from it.
PredictFromCache(body) ==
    /\ started
    /\ request' = [route |-> "predict", body |-> body]
    /\ LET r == predict(ai_model, body, now)
       IN  /\ response' = IF request.route = "predict" /\ response.status = 200
                           THEN response ELSE r.response
           /\ invoked' = r.invoked
    /\ \/ ~probe.set /\ HasVector(body) /\ probe' = [set |-> TRUE, body |-> body, response |-> response']
       \/ probe' = probe
    /\ UNCHANGED <<started, ai_model, now>>
    /\ UNCHANGED pageVars

\* A handler that drops the model handle when a request fails.
PredictDropsModel(body) ==
    /\ started
    /\ request' = [route |-> "predict", body |-> body]
    /\ LET r == predict(ai_model, body, now)
       IN  /\ response' = r.response
           /\ invoked' = r.invoked
           /\ ai_model' = IF r.response.status = 500 THEN None ELSE ai_model
    /\ \/ ~probe.set /\ HasVector(body) /\ probe' = [set |-> TRUE, body |-> body, response |-> response']
       \/ probe' = probe
    /\ UNCHANGED <<started, now>>
    /\ UNCHANGED pageVars

\* POST /predict with `body`, lines 35-72.  The history variable `probe`
\* keeps the first exchange with a feature vector it chooses to keep.
Predict(body) ==
    /\ started
    /\ request' = [route |-> "predict", body |-> body]
    /\ LET r == predict(ai_model, body, now)
       IN  response' = r.response /\ invoked' = r.invoked
    /\ \/ ~probe.set /\ HasVector(body) /\ probe' = [set |-> TRUE, body |-> body, response |-> response']
       \/ probe' = probe
    /\ UNCHANGED <<started, ai_model, now>>
    /\ UNCHANGED pageVars

\* GET /, lines 79-229
Index ==
    /\ started
    /\ request' = [route |-> "index", body |-> NoRequest.body]
    /\ response' = PageResponse
    /\ invoked' = FALSE
    /\ UNCHANGED <<started, ai_model, now, probe>>
    /\ UNCHANGED pageVars

\* The clock advances.
Tick ==
    /\ now < MaxTime
    /\ now' = now + 1
    /\ UNCHANGED <<started, ai_model, request, response, invoked, probe>>
    /\ UNCHANGED pageVars

Next ==
    \/ LoadModel
    \/ \E body \in Bodies : Predict(body)
    \/ Index
    \/ Tick

Spec == Init /\ [][Next]_vars

(***************************************************************************)
(* The page: the submit handler of the embedded script, lines 151-223.     *)
(* Each submission starts one run of the async handler; `handlers` holds   *)
(* one record per run: where it is, the body it sent, the reply it got.    *)
(***************************************************************************)
\* The values the form's four inputs hold at a submission (lines 162-167).
FormVectors == {<<1, 1, 1, 1>>, <<2, 1, 1, 1>>}

\* line 184: JSON.stringify({ features: features })
PageBody(v) == Body("object", FALSE, FList([i \in 1..NumFeatures |-> Num(v[i])]))

\* What fetch() resolves to: the status line and what the body holds.
Reply(status, json, success, error, label, index) ==
    [status |-> status, json |-> json, success |-> success, error |-> error,
     predicted_label |-> label, prediction_index |-> index]
NoReply == Reply(0, FALSE, "absent", "", "", 0)

\* The reply that carries a response of this server.
ReplyOf(r) ==
    Reply(r.status, r.content = "json", r.success, r.error, r.predicted_label,
          r.prediction_index)

\* Replies of other origin (a proxy in front of the server, another
\* version of the API): an error page that is no JSON, a 200 whose body is
\* no JSON, a 200 with success false with and without a message, a 400.
OtherReplies ==
    {Reply(502, FALSE, "absent", "", "", 0),
     Reply(200, FALSE, "absent", "", "", 0),
     Reply(200, TRUE, "false", "model busy", "", 0),
     Reply(200, TRUE, "false", "", "", 0),
     ReplyOf(InvalidInputResponse)}

\* response.ok
Ok(reply) == 200 <= reply.status /\ reply.status <= 299

Handler(pc, body, reply) == [pc |-> pc, body |-> body, reply |-> reply]
\* A run that has returned: its locals are gone.
Returned == Handler("done", NoRequest.body, NoReply)

\* lines 211-216: the catch block
CatchBlock(of, message) ==
    /\ predictionOutput' = [text |-> "Prediction Failed", label |-> "", index |-> 0, of |-> of]
    /\ errorOutput' = [hidden |-> FALSE, text |-> message]

\* A submit handler that leaves the button enabled (line 170 missing).
SubmitLeavesButtonEnabled ==
    /\ started
    /\ ~submitButton.disabled
    /\ Len(handlers) < MaxSubmits
    /\ \E v \in FormVectors :
         handlers' = Append(handlers, Handler("fetch", PageBody(v), NoReply))
    /\ submitButton' = [disabled |-> FALSE, textContent |-> "Processing..."]
    /\ loadingSpinner' = "shown"
    /\ predictionOutput' = [predictionOutput EXCEPT !.text = "Sending data to model..."]
    /\ errorOutput' = [errorOutput EXCEPT !.hidden = TRUE]
    /\ UNCHANGED serverVars

\* lines 152-185: the form is submitted, which a disabled submit button does
\* not allow; the handler runs up to the await of fetch().
Submit ==
    /\ started
    /\ ~submitButton.disabled
    /\ Len(handlers) < MaxSubmits
    /\ \E v \in FormVectors :
         handlers' = Append(handlers, Handler("fetch", PageBody(v), NoReply))
    /\ submitButton' = [disabled |-> TRUE, textContent |-> "Processing..."]
    /\ loadingSpinner' = "shown"
    /\ predictionOutput' = [predictionOutput EXCEPT !.text = "Sending data to model..."]
    /\ errorOutput' = [errorOutput EXCEPT !.hidden = TRUE]
    /\ UNCHANGED serverVars

\* line 179, fetch() rejects: the request or its response is lost.  The
\* catch block runs.
FetchFails(i) ==
    /\ i \in DOMAIN handlers
    /\ handlers[i].pc = "fetch"
    /\ handlers' = [handlers EXCEPT ![i].pc = "failed"]
    /\ CatchBlock(i, "Failed to fetch")
    /\ UNCHANGED <<submitButton, loadingSpinner>>
    /\ UNCHANGED serverVars

\* lines 179-194, fetch() resolves with the server's response to the body
\* sent, or with a reply of other origin; the handler goes on to read the
\* body (line 189 if the status is not OK, line 194 if it is).
FetchResolves(i) ==
    /\ i \in DOMAIN handlers
    /\ handlers[i].pc = "fetch"
    /\ \E reply \in {ReplyOf(predict(ai_model, handlers[i].body, now).response)}
                      \cup OtherReplies :
         handlers' = [handlers EXCEPT
                        ![i].pc = IF Ok(reply) THEN "result_json" ELSE "error_json",
                        ![i].reply = reply]
    /\ UNCHANGED <<submitButton, loadingSpinner, predictionOutput, errorOutput>>
    /\ UNCHANGED serverVars

\* lines 189-190: the body of a response that is not OK has been read; the
\* handler throws the error it names, or the parse error of response.json().
ErrorBodyRead(i) ==
    /\ i \in DOMAIN handlers
    /\ handlers[i].pc = "error_json"
    /\ handlers' = [handlers EXCEPT ![i].pc = "failed"]
    /\ LET reply == handlers[i].reply IN
       CatchBlock(i, IF ~reply.json THEN "Unexpected token"
                     ELSE IF reply.error # "" THEN reply.error
                     ELSE "HTTP error! Status")
    /\ UNCHANGED <<submitButton, loadingSpinner>>
    /\ UNCHANGED serverVars

\* lines 194-207: the body of an OK response has been read; the handler
\* shows the label if success is set, and throws otherwise.
ResultBodyRead(i) ==
    /\ i \in DOMAIN handlers
    /\ handlers[i].pc = "result_json"
    /\ LET reply == handlers[i].reply IN
       IF reply.json /\ reply.success = "true"
       THEN /\ handlers' = [handlers EXCEPT ![i].pc = "rendered"]
            /\ predictionOutput' =
                 [text |-> "label", label |-> reply.predicted_label,
                  index |-> reply.prediction_index, of |-> i]
            /\ UNCHANGED errorOutput
       ELSE /\ handlers' = [handlers EXCEPT ![i].pc = "failed"]
            /\ CatchBlock(i, IF ~reply.json THEN "Unexpected token"
                             ELSE IF reply.error # "" THEN reply.error
                             ELSE "An unknown error occurred in the API.")
    /\ UNCHANGED <<submitButton, loadingSpinner>>
    /\ UNCHANGED serverVars

\* A handler whose reset of the page follows the try block instead of
\* being its finally clause: it runs on the success path alone.
FinallyOnSuccessOnly(i) ==
    /\ i \in DOMAIN handlers
    /\ handlers[i].pc \in {"rendered", "failed"}
    /\ handlers' = [handlers EXCEPT ![i] = Returned]
    /\ IF handlers[i].pc = "rendered"
       THEN /\ submitButton' = [disabled |-> FALSE, textContent |-> "Get Prediction"]
            /\ loadingSpinner' = "hidden"
       ELSE UNCHANGED <<submitButton, loadingSpinner>>
    /\ UNCHANGED <<predictionOutput, errorOutput>>
    /\ UNCHANGED serverVars

\* lines 217-222: the finally block
Finally(i) ==
    /\ i \in DOMAIN handlers
    /\ handlers[i].pc \in {"rendered", "failed"}
    /\ handlers' = [handlers EXCEPT ![i] = Returned]
    /\ submitButton' = [disabled |-> FALSE, textContent |-> "Get Prediction"]
    /\ loadingSpinner' = "hidden"
    /\ UNCHANGED <<predictionOutput, errorOutput>>
    /\ UNCHANGED serverVars

PageNext ==
    \/ LoadModel
    \/ Submit
    \/ \E i \in 1..Len(handlers) : FetchFails(i)
    \/ \E i \in 1..Len(handlers) : FetchResolves(i)
    \/ \E i \in 1..Len(handlers) : ErrorBodyRead(i)
    \/ \E i \in 1..Len(handlers) : ResultBodyRead(i)
    \/ \E i \in 1..Len(handlers) : Finally(i)

PageSpec == Init /\ [][PageNext]_vars

\* Every fetch settles, and the handler's continuations are run once they
\* can be (the event loop runs every ready continuation).
PageFairness ==
    /\ \A i \in 1..MaxSubmits : WF_vars(FetchFails(i) \/ FetchResolves(i))
    /\ \A i \in 1..MaxSubmits : WF_vars(ErrorBodyRead(i))
    /\ \A i \in 1..MaxSubmits : WF_vars(ResultBodyRead(i))
    /\ \A i \in 1..MaxSubmits : WF_vars(Finally(i))

FairPageSpec == Init /\ [][PageNext]_vars /\ PageFairness

(***************************************************************************)
(* The claims about the server.                                            *)
(***************************************************************************)
IsPredict == request.route = "predict"
Loaded == started /\ ModelLoaded(ai_model)

IsList(f) == f.t = "list"
AllNumbers(f) == \A i \in 1..Len(f.items) : f.items[i].t = "num"
\* The body is a JSON object whose `features` is a list of exactly 4 numbers.
ValidVector(body) ==
    /\ body.kind = "object"
    /\ IsList(body.features)
    /\ Len(body.features.items) = 4
    /\ AllNumbers(body.features)
\* The 1 x 4 matrix of a valid vector.
Matrix(body) ==
    [ndim |-> 2, vals |-> [i \in 1..4 |-> F32(body.features.items[i].n)]]
\* What the classifier returns for the valid vector of the last request.
Emitted == model_predict(ai_model, Matrix(request.body))
EmittedIndex == ~Emitted.raised /\ Emitted.value.kind = "int"
InTable(i) == 0 <= i /\ i < Len(CLASS_LABELS)

\* C1: with the model set, a /predict request with a list of exactly 4 numbers
\* for which the classifier returns a class index of the label table gets 200,
\* success true, that index as prediction_index and the table's entry at that
\* index as predicted_label.
C1_ValidVectorPredicted ==
    (IsPredict /\ Loaded /\ ValidVector(request.body) /\ EmittedIndex
        /\ InTable(Emitted.value.idx))
    => /\ response.status = 200
       /\ response.success = "true"
       /\ response.prediction_index = Emitted.value.idx
       /\ response.predicted_label = CLASS_LABELS[Emitted.value.idx + 1]

C1_Witness ==
    /\ IsPredict /\ Loaded /\ ValidVector(request.body)
    /\ response.status = 200
    /\ response.prediction_index = 1
    /\ response.predicted_label = "Versicolor"

\* The body has no `features` field, whatever its shape.
NoFeaturesField(body) == body.kind # "object" \/ body.features.t = "absent"
\* `features` is an array of a length other than 4.
WrongLengthArray(body) ==
    body.kind = "object" /\ IsList(body.features) /\ Len(body.features.items) # 4

\* C2 as stated: with the model set, a request with no `features` field (of
\* any body shape) or with a `features` array of length other than 4 gets 400
\* and the classifier is not called.
C2_MissingOrWrongLengthIs400 ==
    (IsPredict /\ Loaded
        /\ (NoFeaturesField(request.body) \/ WrongLengthArray(request.body)))
    => response.status = 400 /\ ~invoked

\* C2 as amended: with the model set, a request whose body is a JSON object
\* with no `features` field or with a `features` array of length other than 4
\* gets 400; a request whose body is not a JSON object (unparseable, null, an
\* array) gets the server-error response 500; the classifier is called for
\* none of them.
C2_ObjectWithoutVectorIs400 ==
    (IsPredict /\ Loaded)
    => /\ (request.body.kind = "object"
            /\ (NoFeaturesField(request.body) \/ WrongLengthArray(request.body)))
          => (response.status = 400 /\ ~invoked)
       /\ request.body.kind # "object" => (response.status = 500 /\ ~invoked)

C2_Witness ==
    /\ IsPredict /\ Loaded
    /\ WrongLengthArray(request.body)
    /\ Len(request.body.features.items) = 5
    /\ response.status = 400
    /\ ~invoked

\* C3: with the model unset every /predict request gets 503, whatever its
\* body, and the classifier is not called.
C3_UnsetModelIs503 ==
    (IsPredict /\ started /\ ~ModelLoaded(ai_model))
    => response.status = 503 /\ ~invoked

C3_Witness ==
    /\ IsPredict /\ started /\ ~ModelLoaded(ai_model)
    /\ request.body.kind = "unparseable"
    /\ response.status = 503

\* `features` has 4 elements that are not all numbers, or is a string of 4
\* characters.
FourNotAllNumeric(body) ==
    /\ body.kind = "object"
    /\ \/ IsList(body.features) /\ Len(body.features.items) = 4
             /\ ~AllNumbers(body.features)
       \/ body.features.t = "str" /\ Len(body.features.chars) = 4

\* C4: with the model set, a request whose `features` has 4 elements that are
\* not all numeric gets the invalid-input response 400 and the classifier is
\* not called.
C4_NonNumericIs400 ==
    (IsPredict /\ Loaded /\ FourNotAllNumeric(request.body))
    => response.status = 400 /\ ~invoked

\* C5: every /predict request ends in one response of the handler itself, of
\* status 200, 400, 500 or 503, and the service can take every later request.
C5_AlwaysAnswered ==
    /\ IsPredict => /\ response.status \in {200, 400, 500, 503}
                    /\ response.content = "json"
    /\ started => ENABLED (\E body \in Bodies : Predict(body))

\* A request is served after an earlier one failed in the classifier.
C5_Witness ==
    /\ probe.set /\ probe.response.status = 500
    /\ IsPredict /\ Loaded
    /\ response.status = 200

\* C7: once the startup code has run the model handle never changes: no
\* handler writes it, a failed load stays failed (every later /predict request
\* gets 503) and a loaded model stays loaded.
C7_HandleWrittenOnce ==
    [][/\ started => (started' /\ ai_model' = ai_model)
       /\ (started /\ ~ModelLoaded(ai_model) /\ request'.route = "predict")
            => response'.status = 503]_vars

C7_Witness ==
    /\ started /\ ~ModelLoaded(ai_model)
    /\ probe.set /\ probe.response.status = 503
    /\ IsPredict /\ response.status = 503
    /\ ValidVector(request.body)

\* C8: when the classifier returns the last index of the label table, 2, the
\* request succeeds with label Virginica; when it returns an index outside
\* 0..2, negative or too large, the request gets 500 with success false.
C8_LabelLookupBoundary ==
    (IsPredict /\ Loaded /\ ValidVector(request.body) /\ EmittedIndex)
    => /\ Emitted.value.idx = Len(CLASS_LABELS) - 1
          => /\ response.status = 200
             /\ response.success = "true"
             /\ response.predicted_label = "Virginica"
       /\ ~InTable(Emitted.value.idx)
          => response.status = 500 /\ response.success = "false"

\* Two responses that differ in the timestamp at most.
SameOutcome(a, b) ==
    /\ a.status = b.status
    /\ a.success = b.success
    /\ a.prediction_index = b.prediction_index
    /\ a.predicted_label = b.predicted_label
    /\ a.error = b.error

\* C9: a /predict request with the body of an earlier one gets the same
\* status, index and label, whatever was handled in between.
C9_SameVectorSameAnswer ==
    (probe.set /\ IsPredict /\ request.body = probe.body)
    => SameOutcome(response, probe.response)

C9_Witness ==
    /\ probe.set /\ IsPredict /\ request.body = probe.body
    /\ ValidVector(request.body)
    /\ response.status = 200
    /\ response.timestamp # probe.response.timestamp

(***************************************************************************)
(* The claims about the page.                                              *)
(***************************************************************************)
Runs == 1..Len(handlers)
Running == {i \in Runs : handlers[i].pc # "done"}
InFlight == {i \in Runs : handlers[i].pc = "fetch"}

\* The state of the page's state machine.
UiState ==
    IF Running = {} THEN "idle"
    ELSE IF \E i \in Running : handlers[i].pc = "rendered" THEN "success"
    ELSE IF \E i \in Running : handlers[i].pc = "failed" THEN "error"
    ELSE "submitting"

UiSteps ==
    {<<"idle", "submitting">>, <<"submitting", "success">>, <<"submitting", "error">>,
     <<"success", "idle">>, <<"error", "idle">>}

Restored == ~submitButton.disabled /\ loadingSpinner = "hidden"

\* C6: the page goes idle -> submitting -> success or error -> idle; while
\* it is submitting the button is disabled and the indicator shown; back in
\* idle the button is enabled and the indicator hidden; and whenever the
\* button is disabled it is enabled again later, the indicator hidden,
\* whichever way the fetch settles.
C6_SubmitCycle ==
    /\ [][UiState' = UiState \/ <<UiState, UiState'>> \in UiSteps]_vars
    /\ [](UiState = "submitting" => (submitButton.disabled /\ loadingSpinner = "shown"))
    /\ [](UiState = "idle" => Restored)
    /\ (submitButton.disabled ~> Restored)

C6_Witness ==
    /\ Len(handlers) >= 1
    /\ UiState = "idle"
    /\ Restored
    /\ predictionOutput.text = "Prediction Failed"
    /\ ~errorOutput.hidden
    /\ errorOutput.text = "Unexpected token"

\* C10: at most one request of the page is in flight; the button is disabled
\* as long as a run of the handler is under way, so every earlier run has
\* ended before the next starts and what a run renders is its own reply;
\* when the page is idle it shows the outcome of the latest submission.
C10_OneRequestInFlight ==
    /\ Cardinality(InFlight) <= 1
    /\ Running # {} => submitButton.disabled
    /\ \A i \in Runs : i < Len(handlers) => handlers[i].pc = "done"
    /\ \A i \in Runs :
         /\ handlers[i].pc = "rendered"
              => /\ predictionOutput =
                      [text |-> "label", label |-> handlers[i].reply.predicted_label,
                       index |-> handlers[i].reply.prediction_index, of |-> i]
                 /\ errorOutput.hidden
         /\ handlers[i].pc = "failed"
              => /\ predictionOutput.text = "Prediction Failed"
                 /\ predictionOutput.of = i
                 /\ ~errorOutput.hidden
    /\ (UiState = "idle" /\ Len(handlers) > 0)
         => /\ predictionOutput.of = Len(handlers)
            /\ predictionOutput.text \in {"label", "Prediction Failed"}
            /\ errorOutput.hidden <=> predictionOutput.text = "label"

C10_Witness ==
    /\ Len(handlers) = 2
    /\ UiState = "idle"
    /\ predictionOutput.of = 2
    /\ predictionOutput.text = "label"
    /\ predictionOutput.label = "Virginica"
    /\ errorOutput.hidden
    /\ errorOutput.text = "Failed to fetch"

====
